---- MODULE Spec2Model ----
(***************************************************************************)
(* TurboResponse: the Success | Fail result type of src/src/TurboResponse.ts *)
(* and every exported function over it, as a state machine of one caller    *)
(* making library calls.                                                    *)
(*                                                                          *)
(* JavaScript values are tagged tuples, so that values of different types   *)
(* compare unequal: <<"undefined">>, <<"str", s>>, <<"val", x>>,           *)
(* <<"bool", b>>, <<"arr", s>>.  A Result object is a record; its `id`      *)
(* field is the object's identity: an object literal evaluated in the       *)
(* source yields an object whose id no live object has.                     *)
(***************************************************************************)
EXTENDS Integers, Sequences, FiniteSets, TLC

\* Longest list handed to sequence / traverse.
MaxLen == 3
\* Longest chain of andThen / andThenAsync / mapSuccess steps fed by one another.
MaxChain == 3

UNDEF == <<"undefined">>
Str(s) == <<"str", s>>
Bool(b) == <<"bool", b>>
Arr(s) == <<"arr", s>>

\* Opaque payloads (results, errors, items); the library never inspects them.
Vals == {<<"val", "a">>, <<"val", "b">>}
Titles == {UNDEF, Str("t")}
Messages == {UNDEF, Str("m")}
StackTraces == {UNDEF, Str("s")}

\* "No object": the value of a completion that carries no Result.
NoObj ==
  [id |-> 0, tag |-> "None", result |-> UNDEF, error |-> UNDEF,
   stackTrace |-> UNDEF, title |-> UNDEF, message |-> UNDEF]

\* success(result, title, message): a new object (identity id).
success(id, result, title, message) ==
  [id |-> id, tag |-> "Success", result |-> result, error |-> UNDEF,
   stackTrace |-> UNDEF, title |-> title, message |-> message]

\* fail(error, title, message, stackTrace): a new object (identity id).
fail(id, error, title, message, stackTrace) ==
  [id |-> id, tag |-> "Fail", result |-> UNDEF, error |-> error,
   stackTrace |-> stackTrace, title |-> title, message |-> message]

isSuccess(r) == r.tag = "Success"

isFail(r) == r.tag = "Fail"

\* An identity no object of the set `live` has.
NewId(live) ==
  1 + (CHOOSE m \in {o.id : o \in live} \cup {0} :
         \A o \in live : o.id <= m)

\* Every Result a caller can build with success / fail, as object number id.
SuccessObjects(id) ==
  {success(id, x, t, m) : x \in Vals, t \in Titles, m \in Messages}

FailObjects(id) ==
  {fail(id, e, t, m, s) : e \in Vals, t \in Titles, m \in Messages, s \in StackTraces}

Objects(id) == SuccessObjects(id) \cup FailObjects(id)

(***************************************************************************)
(* Completions.  A call ends by returning a Result (ret), returning a plain *)
(* value (val) or throwing (thrown); an async call is first "awaiting" and  *)
(* then "resolved" or "rejected".  calls is the log of the invocations of   *)
(* caller-supplied functions the call made, in order.                       *)
(***************************************************************************)
Return(o, calls) ==
  [status |-> "returned", ret |-> o, val |-> UNDEF, thrown |-> UNDEF, calls |-> calls]

ReturnVal(v, calls) ==
  [status |-> "returned", ret |-> NoObj, val |-> v, thrown |-> UNDEF, calls |-> calls]

Throw(e, calls) ==
  [status |-> "threw", ret |-> NoObj, val |-> UNDEF, thrown |-> e, calls |-> calls]

Idle ==
  [status |-> "idle", ret |-> NoObj, val |-> UNDEF, thrown |-> UNDEF, calls |-> <<>>]

\* One entry of the invocation log: function name, argument (a value or an
\* object), and how the invocation ended.
Invocation(name, x, xo, c) ==
  [fn |-> name, arg |-> x, argObj |-> xo, settled |-> TRUE,
   threw |-> c.status = "threw", res |-> IF c.status = "threw" THEN c.thrown ELSE c.val,
   resObj |-> c.ret]

\* Caller-supplied functions are tables from the argument to a completion
\* (a returned value, a returned Result or a throw).  Invoke applies one to
\* a value; a Result it returns is a new object, number id.
Invoke(name, fn, x, id) ==
  LET c == fn[x]
      d == IF c.ret.tag = "None" THEN c ELSE [c EXCEPT !.ret.id = id]
  IN  [d EXCEPT !.calls = <<Invocation(name, x, NoObj, d)>> \o c.calls]

\* The same for a handler that is given the whole object.
InvokeOn(name, fn, o) ==
  LET c == fn[o]
  IN  [c EXCEPT !.calls = <<Invocation(name, UNDEF, o, c)>> \o c.calls]

\* Function tables the caller can supply.
ValueOutcomes ==
  {ReturnVal(v, <<>>) : v \in Vals} \cup {Throw(e, <<>>) : e \in Vals}

ResultOutcomes ==
  {Return(o, <<>>) : o \in Objects(0)} \cup {Throw(e, <<>>) : e \in Vals}

BoolOutcomes ==
  {ReturnVal(Bool(b), <<>>) : b \in BOOLEAN} \cup {Throw(e, <<>>) : e \in Vals}

(***************************************************************************)
(* The synchronous library functions.  Each yields the completion of the   *)
(* call.                                                                    *)
(***************************************************************************)
when(response, hSuccess, hFail) ==
  IF isSuccess(response)
    THEN InvokeOn("success", hSuccess, response)
    ELSE InvokeOn("fail", hFail, response)

\* maybeWhen gated on the variant alone: a Success without a success handler
\* falls to the fail handler when one was supplied.
maybeWhenByVariant(response, has, hSuccess, hFail, orElse) ==
  IF isSuccess(response) /\ "success" \in has
    THEN InvokeOn("success", hSuccess, response)
    ELSE IF "fail" \in has
      THEN InvokeOn("fail", hFail, response)
      ELSE Invoke("orElse", orElse, UNDEF, 0)

\* has: the optional handlers the caller supplied (those that are truthy).
maybeWhen(response, has, hSuccess, hFail, orElse) ==
  IF isSuccess(response) /\ "success" \in has
    THEN InvokeOn("success", hSuccess, response)
    ELSE IF isFail(response) /\ "fail" \in has
      THEN InvokeOn("fail", hFail, response)
      ELSE Invoke("orElse", orElse, UNDEF, 0)

fold(response, onSuccess, onFail) ==
  IF isSuccess(response)
    THEN Invoke("onSuccess", onSuccess, response.result, 0)
    ELSE Invoke("onFail", onFail, response.error, 0)

mapSuccess(r, fn) ==
  IF isSuccess(r)
    THEN LET c == Invoke("fn", fn, r.result, 0)
         IN  IF c.status = "threw" THEN c
             ELSE Return(success(NewId({r}), c.val, r.title, r.message), c.calls)
    ELSE Return(r, <<>>)

\* andThen rebuilding the Success fn returned, title and message transposed.
andThenRebuilds(r, fn) ==
  IF isSuccess(r)
    THEN LET c == Invoke("fn", fn, r.result, NewId({r}))
         IN  IF c.status = "returned" /\ isSuccess(c.ret)
               THEN Return(success(c.ret.id, c.ret.result, c.ret.message, c.ret.title),
                           c.calls)
               ELSE c
    ELSE Return(r, <<>>)

\* andThen rebuilding the Success fn returned with r's title and message, as
\* mapSuccess does.
andThenKeepsMeta(r, fn) ==
  IF isSuccess(r)
    THEN LET c == Invoke("fn", fn, r.result, NewId({r}))
         IN  IF c.status = "returned" /\ isSuccess(c.ret)
               THEN Return(success(c.ret.id, c.ret.result, r.title, r.message), c.calls)
               ELSE c
    ELSE Return(r, <<>>)

andThen(r, fn) ==
  IF isSuccess(r) THEN Invoke("fn", fn, r.result, NewId({r})) ELSE Return(r, <<>>)

\* mapFail rebuilding the Fail without its stackTrace.
mapFailDropsTrace(r, fn) ==
  IF isFail(r)
    THEN LET c == Invoke("fn", fn, r.error, 0)
         IN  IF c.status = "threw" THEN c
             ELSE Return(fail(NewId({r}), c.val, r.title, r.message, UNDEF), c.calls)
    ELSE Return(r, <<>>)

mapFail(r, fn) ==
  IF isFail(r)
    THEN LET c == Invoke("fn", fn, r.error, 0)
         IN  IF c.status = "threw" THEN c
             ELSE Return(fail(NewId({r}), c.val, r.title, r.message, r.stackTrace), c.calls)
    ELSE Return(r, <<>>)

\* unwrap throwing an exception object that wraps the stored error.
unwrapWraps(r) ==
  IF isSuccess(r)
    THEN ReturnVal(r.result, <<>>)
    ELSE Throw(<<"TurboException", r.error>>, <<>>)

unwrap(r) ==
  IF isSuccess(r) THEN ReturnVal(r.result, <<>>) ELSE Throw(r.error, <<>>)

unwrapOr(r, defaultValue) ==
  ReturnVal(IF isSuccess(r) THEN r.result ELSE defaultValue, <<>>)

unwrapOrCompute(r, compute) ==
  IF isSuccess(r) THEN ReturnVal(r.result, <<>>) ELSE Invoke("compute", compute, UNDEF, 0)

recover(r, fn) ==
  IF isFail(r) THEN Invoke("fn", fn, r.error, NewId({r})) ELSE Return(r, <<>>)

\* swap dropping the title and message of a Fail.
swapDropsMeta(r) ==
  IF isSuccess(r)
    THEN Return(fail(NewId({r}), r.result, r.title, r.message, UNDEF), <<>>)
    ELSE Return(success(NewId({r}), r.error, UNDEF, UNDEF), <<>>)

swap(r) ==
  IF isSuccess(r)
    THEN Return(fail(NewId({r}), r.result, r.title, r.message, UNDEF), <<>>)
    ELSE Return(success(NewId({r}), r.error, r.title, r.message), <<>>)

\* ensure building the Fail from the error alone.
ensureBareFail(r, predicate, error) ==
  IF isSuccess(r)
    THEN LET c == Invoke("predicate", predicate, r.result, 0)
         IN  IF c.status = "threw" THEN c
             ELSE IF c.val = Bool(FALSE)
               THEN Return(fail(NewId({r}), error, UNDEF, UNDEF, UNDEF), c.calls)
               ELSE Return(r, c.calls)
    ELSE Return(r, <<>>)

ensure(r, predicate, error) ==
  IF isSuccess(r)
    THEN LET c == Invoke("predicate", predicate, r.result, 0)
         IN  IF c.status = "threw" THEN c
             ELSE IF c.val = Bool(FALSE)
               THEN Return(fail(NewId({r}), error, r.title, r.message, UNDEF), c.calls)
               ELSE Return(r, c.calls)
    ELSE Return(r, <<>>)

\* sequence returning a copy of the first Fail instead of the element.
RECURSIVE sequenceLoopCopies(_, _, _)
sequenceLoopCopies(responses, i, results) ==
  IF i > Len(responses)
    THEN Return(success(NewId({responses[j] : j \in 1..Len(responses)}),
                        Arr(results), UNDEF, UNDEF), <<>>)
    ELSE IF isFail(responses[i])
      THEN Return(fail(NewId({responses[j] : j \in 1..Len(responses)}),
                       responses[i].error, responses[i].title,
                       responses[i].message, responses[i].stackTrace), <<>>)
      ELSE sequenceLoopCopies(responses, i + 1, Append(results, responses[i].result))

\* The for loop of sequence, from element i on, with results so far.
RECURSIVE sequenceLoop(_, _, _)
sequenceLoop(responses, i, results) ==
  IF i > Len(responses)
    THEN Return(success(NewId({responses[j] : j \in 1..Len(responses)}),
                        Arr(results), UNDEF, UNDEF), <<>>)
    ELSE IF isFail(responses[i])
      THEN Return(responses[i], <<>>)
      ELSE sequenceLoop(responses, i + 1, Append(results, responses[i].result))

sequence(responses) == sequenceLoop(responses, 1, <<>>)

getResult(r) == ReturnVal(IF isSuccess(r) THEN r.result ELSE UNDEF, <<>>)

getError(r) == ReturnVal(IF isFail(r) THEN r.error ELSE UNDEF, <<>>)

getTitle(r) == ReturnVal(r.title, <<>>)

getMessage(r) == ReturnVal(r.message, <<>>)

(***************************************************************************)
(* The async library functions.  An async function runs to its first       *)
(* await (the call), is suspended while the promise fn returned is pending, *)
(* and runs on when that promise settles (the resume).  A throw of fn       *)
(* before it returns a promise rejects the async function's promise as a    *)
(* rejection of fn's promise does, so both are the settlement "rejected".   *)
(***************************************************************************)
Pending(name, x) ==
  [fn |-> name, arg |-> x, argObj |-> NoObj, settled |-> FALSE,
   threw |-> FALSE, res |-> UNDEF, resObj |-> NoObj]

Await(calls) ==
  [status |-> "awaiting", ret |-> NoObj, val |-> UNDEF, thrown |-> UNDEF, calls |-> calls]

Resolve(o, calls) ==
  [status |-> "resolved", ret |-> o, val |-> UNDEF, thrown |-> UNDEF, calls |-> calls]

Reject(e, calls) ==
  [status |-> "rejected", ret |-> NoObj, val |-> UNDEF, thrown |-> e, calls |-> calls]

\* How a pending promise of fn can settle: fulfilled with a Result (a new
\* object, number id) or rejected with a value.
Settlements(id) ==
  {Resolve(o, <<>>) : o \in Objects(id)} \cup {Reject(e, <<>>) : e \in Vals}

\* The log with its pending invocation, number i, settled as s.
Settled(calls, i, s) ==
  [calls EXCEPT ![i] = [@ EXCEPT !.settled = TRUE,
                                 !.threw = (s.status = "rejected"),
                                 !.res = s.thrown,
                                 !.resObj = s.ret]]

\* andThenAsync without the variant test: fn is given the payload of a Fail.
andThenAsyncAlways(r) ==
  Await(<<Pending("fn", IF isSuccess(r) THEN r.result ELSE r.error)>>)

\* andThenAsync up to its await.
andThenAsync(r) ==
  IF isSuccess(r) THEN Await(<<Pending("fn", r.result)>>) ELSE Resolve(r, <<>>)

\* recoverAsync up to its await.
recoverAsync(r) ==
  IF isFail(r) THEN Await(<<Pending("fn", r.error)>>) ELSE Resolve(r, <<>>)

\* The await wrapped in a try / catch that turns a rejection into a Fail.
awaitReturnCatches(calls, s) ==
  IF s.status = "rejected"
    THEN Resolve(fail(NewId({calls[j].resObj : j \in 1..Len(calls)}),
                      s.thrown, UNDEF, UNDEF, UNDEF),
                 Settled(calls, Len(calls), s))
    ELSE Resolve(s.ret, Settled(calls, Len(calls), s))

\* `return await fn(...)` once fn's promise has settled as s.
awaitReturn(calls, s) ==
  IF s.status = "rejected"
    THEN Reject(s.thrown, Settled(calls, Len(calls), s))
    ELSE Resolve(s.ret, Settled(calls, Len(calls), s))

\* The for loop of traverse from item i on, up to its next await or its
\* return: the completion and the suspended frame (i, results).
traverseLoop(items, i, results, calls) ==
  IF i > Len(items)
    THEN [out |-> Resolve(success(NewId({calls[j].resObj : j \in 1..Len(calls)}),
                                  Arr(results), UNDEF, UNDEF), calls),
          frame |-> [i |-> i, results |-> results]]
    ELSE [out |-> Await(Append(calls, Pending("fn", items[i]))),
          frame |-> [i |-> i, results |-> results]]

\* traverse up to its first await.
traverse(items) == traverseLoop(items, 1, <<>>, <<>>)

\* traverse without the return on a Fail: the loop goes on to the next item.
traverseResumeGoesOn(items, i, results, calls, s) ==
  IF s.status = "rejected"
    THEN [out |-> Reject(s.thrown, Settled(calls, i, s)),
          frame |-> [i |-> i, results |-> results]]
    ELSE traverseLoop(items, i + 1, Append(results, s.ret.result),
                      Settled(calls, i, s))

\* traverse collecting the results newest first.
traverseResumePrepends(items, i, results, calls, s) ==
  IF s.status = "rejected"
    THEN [out |-> Reject(s.thrown, Settled(calls, i, s)),
          frame |-> [i |-> i, results |-> results]]
    ELSE IF isFail(s.ret)
      THEN [out |-> Resolve(s.ret, Settled(calls, i, s)),
            frame |-> [i |-> i, results |-> results]]
      ELSE traverseLoop(items, i + 1, <<s.ret.result>> \o results,
                        Settled(calls, i, s))

\* traverse once the promise of fn(items[i]) has settled as s.
traverseResume(items, i, results, calls, s) ==
  IF s.status = "rejected"
    THEN [out |-> Reject(s.thrown, Settled(calls, i, s)),
          frame |-> [i |-> i, results |-> results]]
    ELSE IF isFail(s.ret)
      THEN [out |-> Resolve(s.ret, Settled(calls, i, s)),
            frame |-> [i |-> i, results |-> results]]
      ELSE traverseLoop(items, i + 1, Append(results, s.ret.result),
                        Settled(calls, i, s))

(***************************************************************************)
(* The state: one caller.  call is the library call it made (its name and  *)
(* arguments), out the completion of that call, frame the locals of a       *)
(* suspended traverse, chain the history of a chain of steps applied to a   *)
(* Fail, and alt the completion of the second expression when the caller    *)
(* evaluates two expressions side by side.                                  *)
(***************************************************************************)
VARIABLES call, out, alt, frame, chain

vars == <<call, out, alt, frame, chain>>

Call(op, r) ==
  [op |-> op, r |-> r, list |-> <<>>, items |-> <<>>, arg |-> UNDEF, has |-> {}]

NoFrame == [i |-> 0, results |-> <<>>]

NoChain == [fail |-> NoObj, steps |-> 0, invoked |-> 0]

Init ==
  /\ call = Call("none", NoObj)
  /\ out = Idle
  /\ alt = Idle
  /\ frame = NoFrame
  /\ chain = NoChain

\* The caller has made no call yet.
Fresh == out.status = "idle"

\* A call that is not a step of a chain: c is its completion.
Completes(c) ==
  /\ out' = c
  /\ alt' = Idle
  /\ frame' = NoFrame
  /\ chain' = NoChain

\* The steps a chain is built from.
ChainOps == {"andThen", "andThenAsync", "mapSuccess"}

\* The caller holds the Fail a chain started from, or what the last step of
\* the chain made of it, and may feed it to a further step.
Chaining ==
  /\ call.op \in ChainOps \cup {"fail"}
  /\ out.status \in {"returned", "resolved"}
  /\ out.ret.tag # "None"
  /\ chain.fail.tag # "None"
  /\ chain.steps < MaxChain

\* The Result arguments a chain step can be given: any Result of a first
\* call, or the Result the chain has reached.
StepArgs == IF Fresh THEN Objects(1) ELSE IF Chaining THEN {out.ret} ELSE {}

\* A chain step on r with completion c.
Steps(r, c) ==
  /\ out' = c
  /\ alt' = Idle
  /\ frame' = NoFrame
  /\ chain' = IF Fresh THEN NoChain
              ELSE [chain EXCEPT !.steps = @ + 1, !.invoked = @ + Len(c.calls)]

Success ==
  /\ Fresh
  /\ \E x \in Vals, t \in Titles, m \in Messages :
       /\ call' = Call("success", NoObj)
       /\ Completes(Return(success(1, x, t, m), <<>>))

Fail ==
  /\ Fresh
  /\ \E e \in Vals, t \in Titles, m \in Messages, s \in StackTraces :
       /\ call' = Call("fail", NoObj)
       /\ out' = Return(fail(1, e, t, m, s), <<>>)
       /\ alt' = Idle
       /\ frame' = NoFrame
       /\ chain' = [fail |-> fail(1, e, t, m, s), steps |-> 0, invoked |-> 0]

IsSuccess ==
  /\ Fresh
  /\ \E r \in Objects(1) :
       /\ call' = Call("isSuccess", r)
       /\ Completes(ReturnVal(Bool(isSuccess(r)), <<>>))

IsFail ==
  /\ Fresh
  /\ \E r \in Objects(1) :
       /\ call' = Call("isFail", r)
       /\ Completes(ReturnVal(Bool(isFail(r)), <<>>))

When ==
  /\ Fresh
  /\ \E r \in Objects(1) :
       \E hSuccess \in [{r} -> ValueOutcomes], hFail \in [{r} -> ValueOutcomes] :
         /\ call' = Call("when", r)
         /\ Completes(when(r, hSuccess, hFail))

MaybeWhen ==
  /\ Fresh
  /\ \E r \in Objects(1), has \in SUBSET {"success", "fail"} :
       \E hSuccess \in [{r} -> ValueOutcomes], hFail \in [{r} -> ValueOutcomes],
          orElse \in [{UNDEF} -> ValueOutcomes] :
         /\ call' = [Call("maybeWhen", r) EXCEPT !.has = has]
         /\ Completes(maybeWhen(r, has, hSuccess, hFail, orElse))

Fold ==
  /\ Fresh
  /\ \E r \in Objects(1) :
       \E onSuccess \in [Vals -> ValueOutcomes], onFail \in [Vals -> ValueOutcomes] :
         /\ call' = Call("fold", r)
         /\ Completes(fold(r, onSuccess, onFail))

MapSuccess ==
  \E r \in StepArgs, fn \in [Vals -> ValueOutcomes] :
    /\ call' = Call("mapSuccess", r)
    /\ Steps(r, mapSuccess(r, fn))

AndThen ==
  \E r \in StepArgs, fn \in [Vals -> ResultOutcomes] :
    /\ call' = Call("andThen", r)
    /\ Steps(r, andThen(r, fn))

AndThenAsync ==
  \E r \in StepArgs :
    /\ call' = Call("andThenAsync", r)
    /\ Steps(r, andThenAsync(r))

\* The promise of fn that andThenAsync awaits settles.
AndThenAsyncResume ==
  /\ call.op = "andThenAsync"
  /\ out.status = "awaiting"
  /\ \E s \in Settlements(NewId({call.r})) :
       /\ out' = awaitReturn(out.calls, s)
       /\ UNCHANGED <<call, alt, frame, chain>>

MapFail ==
  /\ Fresh
  /\ \E r \in Objects(1), fn \in [Vals -> ValueOutcomes] :
       /\ call' = Call("mapFail", r)
       /\ Completes(mapFail(r, fn))

Unwrap ==
  /\ Fresh
  /\ \E r \in Objects(1) :
       /\ call' = Call("unwrap", r)
       /\ Completes(unwrap(r))

UnwrapOr ==
  /\ Fresh
  /\ \E r \in Objects(1), defaultValue \in Vals :
       /\ call' = [Call("unwrapOr", r) EXCEPT !.arg = defaultValue]
       /\ Completes(unwrapOr(r, defaultValue))

UnwrapOrCompute ==
  /\ Fresh
  /\ \E r \in Objects(1), compute \in [{UNDEF} -> ValueOutcomes] :
       /\ call' = Call("unwrapOrCompute", r)
       /\ Completes(unwrapOrCompute(r, compute))

Recover ==
  /\ Fresh
  /\ \E r \in Objects(1), fn \in [Vals -> ResultOutcomes] :
       /\ call' = Call("recover", r)
       /\ Completes(recover(r, fn))

RecoverAsync ==
  /\ Fresh
  /\ \E r \in Objects(1) :
       /\ call' = Call("recoverAsync", r)
       /\ Completes(recoverAsync(r))

\* The promise of fn that recoverAsync awaits settles.
RecoverAsyncResume ==
  /\ call.op = "recoverAsync"
  /\ out.status = "awaiting"
  /\ \E s \in Settlements(NewId({call.r})) :
       /\ out' = awaitReturn(out.calls, s)
       /\ UNCHANGED <<call, alt, frame, chain>>

Swap ==
  /\ Fresh
  /\ \E r \in Objects(1) :
       /\ call' = Call("swap", r)
       /\ Completes(swap(r))

Ensure ==
  /\ Fresh
  /\ \E r \in Objects(1), predicate \in [Vals -> BoolOutcomes], error \in Vals :
       /\ call' = [Call("ensure", r) EXCEPT !.arg = error]
       /\ Completes(ensure(r, predicate, error))

\* The lists of length n of Results the caller built: element i is object i.
Lists(n) ==
  {[i \in 1..n |-> [l[i] EXCEPT !.id = i]] : l \in [1..n -> Objects(0)]}

Sequence ==
  /\ Fresh
  /\ \E n \in 0..MaxLen :
       \E responses \in Lists(n) :
         /\ call' = [Call("sequence", NoObj) EXCEPT !.list = responses]
         /\ Completes(sequence(responses))

Traverse ==
  /\ Fresh
  /\ \E n \in 0..MaxLen :
       \E items \in [1..n -> Vals] :
         /\ call' = [Call("traverse", NoObj) EXCEPT !.items = items]
         /\ out' = traverse(items).out
         /\ frame' = traverse(items).frame
         /\ alt' = Idle
         /\ chain' = NoChain

\* The promise of fn(items[i]) that traverse awaits settles.
TraverseResume ==
  /\ call.op = "traverse"
  /\ out.status = "awaiting"
  /\ \E s \in Settlements(NewId({out.calls[j].resObj : j \in 1..Len(out.calls)})) :
       LET next == traverseResume(call.items, frame.i, frame.results, out.calls, s)
       IN  /\ out' = next.out
           /\ frame' = next.frame
           /\ UNCHANGED <<call, alt, chain>>

GetResult ==
  /\ Fresh
  /\ \E r \in Objects(1) :
       /\ call' = Call("getResult", r)
       /\ Completes(getResult(r))

GetError ==
  /\ Fresh
  /\ \E r \in Objects(1) :
       /\ call' = Call("getError", r)
       /\ Completes(getError(r))

GetTitle ==
  /\ Fresh
  /\ \E r \in Objects(1) :
       /\ call' = Call("getTitle", r)
       /\ Completes(getTitle(r))

GetMessage ==
  /\ Fresh
  /\ \E r \in Objects(1) :
       /\ call' = Call("getMessage", r)
       /\ Completes(getMessage(r))

\* The functions f, g of the associativity law: each argument is mapped to a
\* Result without metadata or with all of it, or to a throw.
LawOutcomes ==
  {Return(o, <<>>) :
     o \in {success(0, x, UNDEF, UNDEF) : x \in Vals}
           \cup {success(0, x, Str("t"), Str("m")) : x \in Vals}
           \cup {fail(0, e, UNDEF, UNDEF, UNDEF) : e \in Vals}
           \cup {fail(0, e, Str("t"), Str("m"), Str("s")) : e \in Vals}}
  \cup {Throw(e, <<>>) : e \in Vals}

\* andThen(andThen(r, f), g)
andThenTwice(r, f, g) ==
  LET inner == andThen(r, f)
  IN  IF inner.status = "threw" THEN inner
      ELSE [andThen(inner.ret, g) EXCEPT !.calls = inner.calls \o @]

\* x => andThen(f(x), g)
andThenAfter(f, g) ==
  [x \in Vals |->
     LET c == Invoke("f", f, x, 1)
     IN  IF c.status = "threw" THEN c
         ELSE [andThen(c.ret, g) EXCEPT !.calls = c.calls \o @]]

\* The caller evaluates andThen(andThen(r, f), g) (out) and
\* andThen(r, x => andThen(f(x), g)) (alt).
AndThenNested ==
  /\ Fresh
  /\ \E r \in Objects(1), f \in [Vals -> LawOutcomes], g \in [Vals -> LawOutcomes] :
       /\ call' = Call("andThen.andThen", r)
       /\ out' = andThenTwice(r, f, g)
       /\ alt' = andThen(r, andThenAfter(f, g))
       /\ frame' = NoFrame
       /\ chain' = NoChain

\* v => success(v, title, message)
successOf(title, message) ==
  [v \in Vals |-> Return(success(0, v, title, message), <<>>)]

\* The caller evaluates andThen(success(x, t, m), v => success(v, title, message))
\* (out) and success(x, title, message) (alt).
AndThenSuccess ==
  /\ Fresh
  /\ \E r \in SuccessObjects(1), title \in Titles, message \in Messages :
       /\ call' = Call("andThen.success", r)
       /\ out' = andThen(r, successOf(title, message))
       /\ alt' = Return(success(NewId({r}), r.result, title, message), <<>>)
       /\ frame' = NoFrame
       /\ chain' = NoChain

Next ==
  \/ Success
  \/ Fail
  \/ IsSuccess
  \/ IsFail
  \/ When
  \/ MaybeWhen
  \/ Fold
  \/ MapSuccess
  \/ AndThen
  \/ AndThenNested
  \/ AndThenSuccess
  \/ AndThenAsync
  \/ AndThenAsyncResume
  \/ MapFail
  \/ Unwrap
  \/ UnwrapOr
  \/ UnwrapOrCompute
  \/ Recover
  \/ RecoverAsync
  \/ RecoverAsyncResume
  \/ Swap
  \/ Ensure
  \/ Sequence
  \/ Traverse
  \/ TraverseResume
  \/ GetResult
  \/ GetError
  \/ GetTitle
  \/ GetMessage

Spec == Init /\ [][Next]_vars

(***************************************************************************)
(* Properties.                                                              *)
(***************************************************************************)
\* The Results of the invocations logged so far, in order.
Responses(calls) == [j \in 1..Len(calls) |-> calls[j].resObj]

\* The two Results agree in tag, payload, title, message and stackTrace.
SameFields(a, b) ==
  /\ a.tag = b.tag
  /\ a.result = b.result
  /\ a.error = b.error
  /\ a.title = b.title
  /\ a.message = b.message
  /\ a.stackTrace = b.stackTrace

\* C1: traverse invokes fn sequentially in input order: the j-th invocation
\* is fn(items[j]), so no item is given to fn twice; an invocation is only
\* started once every earlier one has settled with a Success, so none
\* follows a Fail; at the end fn was invoked k+1 times when the first Fail
\* is at index k (counted from 0), and once per item when there is no Fail.
TraverseSequential ==
  call.op = "traverse" =>
    LET calls == out.calls
        n == Len(call.items)
    IN  /\ Len(calls) <= n
        /\ \A j \in 1..Len(calls) : calls[j].fn = "fn" /\ calls[j].arg = call.items[j]
        /\ \A j \in 1..(Len(calls) - 1) :
             calls[j].settled /\ ~calls[j].threw /\ isSuccess(calls[j].resObj)
        /\ out.status = "awaiting" <=> (calls # <<>> /\ ~calls[Len(calls)].settled)
        /\ out.status = "resolved" =>
             \/ Len(calls) = n /\ \A j \in 1..n : isSuccess(calls[j].resObj)
             \/ calls # <<>> /\ isFail(calls[Len(calls)].resObj)

\* traverse([x, y, z], fn) where fn(y) resolved to a Fail: fn ran twice.
TraverseStoppedEarly ==
  /\ call.op = "traverse"
  /\ Len(call.items) = 3
  /\ out.status = "resolved"
  /\ Len(out.calls) = 2
  /\ isFail(out.calls[2].resObj)

\* The index of the first Fail of a list that holds one.
FirstFail(l) ==
  CHOOSE j \in 1..Len(l) : isFail(l[j]) /\ \A k \in 1..(j - 1) : ~isFail(l[k])

\* C2: sequence(responses) returns the first Fail element itself (the same
\* object) when there is one, whatever follows it, and otherwise a Success
\* of the elements' results in input order, as long as the input.
SequenceFirstFailOrAll ==
  call.op = "sequence" =>
    LET l == call.list
    IN  /\ out.status = "returned"
        /\ out.calls = <<>>
        /\ IF \E j \in 1..Len(l) : isFail(l[j])
             THEN out.ret = l[FirstFail(l)]
             ELSE /\ isSuccess(out.ret)
                  /\ out.ret.result = Arr([j \in 1..Len(l) |-> l[j].result])
                  /\ Len(out.ret.result[2]) = Len(l)
                  /\ \A j \in 1..Len(l) : out.ret.id # l[j].id

\* sequence on [Success, Fail, Fail-or-Success] returned the second element.
SequenceMiddleFail ==
  /\ call.op = "sequence"
  /\ Len(call.list) = 3
  /\ isSuccess(call.list[1])
  /\ isFail(call.list[2])
  /\ call.list[2].stackTrace # UNDEF
  /\ isFail(call.list[3])
  /\ out.ret.id = 2

\* C3: traverse(items, fn) resolves to what sequence returns on the Results
\* fn(items[1]), fn(items[2]), ... up to and including the first Fail: that
\* Fail itself, or a Success of all results in input order (of the empty
\* list, fn never invoked, for no items).
TraverseIsSequence ==
  (call.op = "traverse" /\ out.status = "resolved") =>
    /\ \A j \in 1..Len(out.calls) : out.calls[j].arg = call.items[j]
    /\ Len(out.calls) = Len(call.items) \/ isFail(out.calls[Len(out.calls)].resObj)
    /\ out.ret = sequence(Responses(out.calls)).ret
    /\ call.items = <<>> => out.calls = <<>> /\ out.ret.result = Arr(<<>>)

\* traverse of three items all resolved to a Success, with different results.
TraverseAllSucceeded ==
  /\ call.op = "traverse"
  /\ out.status = "resolved"
  /\ Len(call.items) = 3
  /\ isSuccess(out.ret)
  /\ out.calls[1].resObj.result # out.calls[2].resObj.result
  /\ out.calls[1].resObj.title # UNDEF

\* C4: a chain of andThen / andThenAsync / mapSuccess steps started from a
\* Fail yields that Fail itself, and no step function is invoked; the Fail
\* that sequence or traverse returns is the first Fail unchanged.
ShortCircuit ==
  /\ chain.steps >= 1 =>
       /\ out.status \in {"returned", "resolved"}
       /\ out.ret = chain.fail
       /\ chain.invoked = 0
       /\ out.calls = <<>>
  /\ (call.op = "sequence" /\ isFail(out.ret)) =>
       out.ret = call.list[FirstFail(call.list)]
  /\ (call.op = "traverse" /\ out.status = "resolved" /\ isFail(out.ret)) =>
       /\ out.ret = out.calls[Len(out.calls)].resObj
       /\ \A j \in 1..(Len(out.calls) - 1) : isSuccess(out.calls[j].resObj)

\* A chain of MaxChain steps on a Fail with a stack trace, the last async.
ChainOnFail ==
  /\ chain.steps = MaxChain
  /\ chain.fail.stackTrace # UNDEF
  /\ chain.fail.title # UNDEF
  /\ call.op = "andThenAsync"
  /\ isFail(call.r)

\* The async functions that await a caller-supplied fn.
AwaitingOps == {"andThenAsync", "recoverAsync", "traverse"}

\* C5: a throw or rejection of fn inside andThenAsync, recoverAsync or
\* traverse is not caught: the call's promise rejects with the same value,
\* no Result is produced, and (traverse) fn is not invoked again.
Containment ==
  call.op \in AwaitingOps =>
    /\ \A j \in 1..Len(out.calls) :
         out.calls[j].threw =>
           /\ j = Len(out.calls)
           /\ out.status = "rejected"
           /\ out.thrown = out.calls[j].res
           /\ out.ret = NoObj
    /\ out.status = "rejected" =>
         out.calls # <<>> /\ out.calls[Len(out.calls)].threw

\* traverse of three items whose second invocation rejected.
TraverseRejected ==
  /\ call.op = "traverse"
  /\ Len(call.items) = 3
  /\ Len(out.calls) = 2
  /\ out.calls[2].threw
  /\ frame.results # <<>>

\* The call was given a Fail.
GivenFail == isFail(call.r) \/ \E j \in 1..Len(call.list) : isFail(call.list[j])

\* No invocation of a caller-supplied function threw or rejected.
NoneThrew(c) == \A j \in 1..Len(c.calls) : ~c.calls[j].threw

\* C6: unwrap returns the result of a Success and throws the stored error
\* of a Fail, the value itself; no other operation given a Fail throws (or
\* rejects) unless a function it was given did.
UnwrapOnlyThrows ==
  /\ call.op = "unwrap" =>
       IF isSuccess(call.r)
         THEN out.status = "returned" /\ out.val = call.r.result
         ELSE out.status = "threw" /\ out.thrown = call.r.error
  /\ (call.op # "unwrap" /\ GivenFail /\ NoneThrew(out) /\ NoneThrew(alt)) =>
       /\ out.status \notin {"threw", "rejected"}
       /\ alt.status \notin {"threw", "rejected"}

\* unwrap of a Fail threw.
UnwrapThrew ==
  /\ call.op = "unwrap"
  /\ isFail(call.r)
  /\ out.status = "threw"

\* C7: andThen(andThen(r, f), g) and andThen(r, x => andThen(f(x), g)) end
\* alike: the same Result in tag, payload, title, message and stackTrace
\* (or the same throw).
AndThenAssociative ==
  call.op = "andThen.andThen" =>
    /\ out.status = alt.status
    /\ out.thrown = alt.thrown
    /\ SameFields(out.ret, alt.ret)

\* Both f and g were invoked and g returned a Success with a title.
AndThenBothInvoked ==
  /\ call.op = "andThen.andThen"
  /\ call.r.title = UNDEF
  /\ Len(out.calls) = 2
  /\ isSuccess(out.ret)
  /\ out.ret.title # UNDEF

\* C8: ensure(r, predicate, error) on a Success failing the predicate
\* returns a new Fail with the given error, r's title and message and no
\* stackTrace; on a Success passing it returns r itself; on a Fail it
\* returns r itself without evaluating the predicate.
EnsureContract ==
  (call.op = "ensure" /\ out.status = "returned") =>
    IF isSuccess(call.r)
      THEN /\ Len(out.calls) = 1
           /\ out.calls[1].fn = "predicate"
           /\ out.calls[1].arg = call.r.result
           /\ IF out.calls[1].res = Bool(FALSE)
                THEN /\ isFail(out.ret)
                     /\ out.ret.id # call.r.id
                     /\ out.ret.error = call.arg
                     /\ out.ret.title = call.r.title
                     /\ out.ret.message = call.r.message
                     /\ out.ret.stackTrace = UNDEF
                ELSE out.ret = call.r
      ELSE out.ret = call.r /\ out.calls = <<>>

\* ensure on a Success with title and message whose predicate was false.
EnsureRejected ==
  /\ call.op = "ensure"
  /\ isSuccess(call.r)
  /\ call.r.title # UNDEF
  /\ call.r.message # UNDEF
  /\ out.status = "returned"
  /\ out.calls[1].res = Bool(FALSE)

\* C9: swap flips the variant: a Success with result x becomes a Fail with
\* error x, a Fail with error e a Success with result e; title and message
\* are kept and the outcome has no stackTrace.
SwapFlips ==
  call.op = "swap" =>
    /\ out.status = "returned"
    /\ out.ret.title = call.r.title
    /\ out.ret.message = call.r.message
    /\ out.ret.stackTrace = UNDEF
    /\ IF isSuccess(call.r)
         THEN isFail(out.ret) /\ out.ret.error = call.r.result
         ELSE isSuccess(out.ret) /\ out.ret.result = call.r.error

\* swap of a Fail that has title, message and stackTrace.
SwapOfFail ==
  /\ call.op = "swap"
  /\ isFail(call.r)
  /\ call.r.title # UNDEF
  /\ call.r.message # UNDEF
  /\ call.r.stackTrace # UNDEF

\* The handler maybeWhen is to invoke.
Matching ==
  IF isSuccess(call.r) /\ "success" \in call.has THEN "success"
  ELSE IF isFail(call.r) /\ "fail" \in call.has THEN "fail"
  ELSE "orElse"

\* C10: maybeWhen invokes exactly one handler and returns its result: the
\* handler of r's variant if supplied (given r), else orElse, also when only
\* the other variant's handler was supplied.
MaybeWhenOneHandler ==
  call.op = "maybeWhen" =>
    /\ Len(out.calls) = 1
    /\ out.calls[1].fn = Matching
    /\ Matching # "orElse" => out.calls[1].argObj = call.r
    /\ IF out.calls[1].threw
         THEN out.status = "threw" /\ out.thrown = out.calls[1].res
         ELSE out.status = "returned" /\ out.val = out.calls[1].res

\* maybeWhen on a Success with only a fail handler: orElse ran.
MaybeWhenFellBack ==
  /\ call.op = "maybeWhen"
  /\ isSuccess(call.r)
  /\ call.has = {"fail"}
  /\ out.calls[1].fn = "orElse"
  /\ out.status = "returned"

\* C11: mapSuccess(r, fn) on a Success returns a new Success of fn(r.result)
\* with r's title and message, and on a Fail returns r itself, fn not
\* invoked; mapFail(r, fn) on a Fail returns a new Fail of fn(r.error) with
\* r's title, message and stackTrace, and on a Success returns r itself, fn
\* not invoked.  r is not modified: the object returned under r's identity
\* is r as it was given.
MapOneVariant ==
  /\ call.op = "mapSuccess" =>
       IF isSuccess(call.r)
         THEN /\ Len(out.calls) = 1
              /\ out.calls[1].arg = call.r.result
              /\ out.status = "returned" =>
                   /\ isSuccess(out.ret)
                   /\ out.ret.id # call.r.id
                   /\ out.ret.result = out.calls[1].res
                   /\ out.ret.title = call.r.title
                   /\ out.ret.message = call.r.message
         ELSE out.status = "returned" /\ out.ret = call.r /\ out.calls = <<>>
  /\ call.op = "mapFail" =>
       IF isFail(call.r)
         THEN /\ Len(out.calls) = 1
              /\ out.calls[1].arg = call.r.error
              /\ out.status = "returned" =>
                   /\ isFail(out.ret)
                   /\ out.ret.id # call.r.id
                   /\ out.ret.error = out.calls[1].res
                   /\ out.ret.title = call.r.title
                   /\ out.ret.message = call.r.message
                   /\ out.ret.stackTrace = call.r.stackTrace
         ELSE out.status = "returned" /\ out.ret = call.r /\ out.calls = <<>>
  /\ (call.op \in {"mapSuccess", "mapFail"} /\ out.ret.id = call.r.id) =>
       out.ret = call.r

\* mapFail of a Fail with title, message and stackTrace, fn changing the error.
MapFailMapped ==
  /\ call.op = "mapFail"
  /\ isFail(call.r)
  /\ call.r.title # UNDEF
  /\ call.r.message # UNDEF
  /\ call.r.stackTrace # UNDEF
  /\ out.status = "returned"
  /\ out.ret.error # call.r.error

\* C12: andThen(success(x), v => success(v)) equals success(x): the outcome
\* is the Success the inner success call built, with the title and message
\* given to that call and not those of the Success chained from.
AndThenIdentity ==
  call.op = "andThen.success" =>
    /\ out.status = "returned"
    /\ Len(out.calls) = 1
    /\ out.calls[1].arg = call.r.result
    /\ out.ret = out.calls[1].resObj
    /\ out.ret.id # call.r.id
    /\ SameFields(out.ret, alt.ret)
    /\ out.ret.result = call.r.result

\* The Success chained from has a title and a message, the inner call none.
AndThenIdentityOuterMeta ==
  /\ call.op = "andThen.success"
  /\ call.r.title # UNDEF
  /\ call.r.message # UNDEF
  /\ alt.ret.title = UNDEF
  /\ alt.ret.message = UNDEF
  /\ out.status = "returned"

====
